---- MODULE Spec2Model ----
(***************************************************************************)
(* A model of the request-baskets core: the script sandbox                 *)
(* (scriptResponse), request forwarding (RequestData.Forward), the search  *)
(* predicate (RequestData.Matches), the statistics reducer                 *)
(* (DatabaseStats.Collect / UpdateAvarage) and the per-basket request ring.*)
(*                                                                         *)
(* Go strings are modelled as sequences of one-character strings, so that  *)
(* len(), TrimPrefix, TrimSuffix and Contains are computed per character.  *)
(***************************************************************************)
EXTENDS Integers, Sequences, FiniteSets, TLC

VARIABLES
    \* ---- script sandbox
    hostAlive,      \* FALSE once the process has exited (log.Fatal)
    scriptCall,     \* the arguments of the last scriptResponse call (NoCall before any)
    scriptRet,      \* what that call returned to its caller (NoReturn when it did not return)
    evals,          \* number of scriptResponse calls made so far
    \* ---- capture and forwarding of one request
    fpc,            \* "idle", "captured" (ToRequestData done), "forwarded" (Forward returned)
    reqData,        \* the captured RequestData
    reqBasket,      \* the name of the basket that accepted the request
    fwdCall,        \* the arguments of the Forward call: config and the network's outcome
    fwdRes,         \* what Forward returned and what it handed to client.Do
    \* ---- searching the captured request
    matchCall,      \* the arguments of the Matches call on reqData
    matchRes,       \* what Matches returned
    \* ---- database statistics (one GetStats roll-up)
    stats,          \* the DatabaseStats being filled
    statsMax,       \* the bound passed to every Collect call
    seen,           \* the snapshots passed to Collect so far, in call order
    avgFresh,       \* TRUE when UpdateAvarage ran after the last Collect
    \* ---- one basket
    capacity,       \* config.capacity
    requests,       \* the ring of captured records, newest first
    totalCount,     \* total_count
    ringOp,         \* the last operation on the basket: "none", "Add", "Clear", "Update"
    \* ---- a client listing the basket page by page
    pager,          \* the paging session: its parameters, the pages so far, the last page
    \* ---- concurrent calls on one basket
    lock,           \* the per-basket lock: its writer (0: none) and its readers
    procs,          \* each caller's operation, position in it, local value and observation
    lockOrder,      \* the Add calls in the order they acquired the lock
    \* ---- baskets of one service forwarding to each other
    loopCfg,        \* each basket's config (forward_url, expand_path)
    wire,           \* the requests on their way to the service
    held,           \* each basket's captured records, newest first
    forwardCount,   \* number of Forward calls made by the ingest pipeline
    extSent         \* TRUE once the external request was sent

scriptVars == <<hostAlive, scriptCall, scriptRet, evals>>
fwdVars == <<fpc, reqData, reqBasket, fwdCall, fwdRes>>
matchVars == <<matchCall, matchRes>>
statsVars == <<stats, statsMax, seen, avgFresh>>
basketVars == <<capacity, requests, totalCount, ringOp>>
pagerVars == <<pager>>
concVars == <<lock, procs, lockOrder>>
loopVars == <<loopCfg, wire, held, forwardCount, extSent>>
vars == <<scriptVars, fwdVars, matchVars, statsVars, basketVars, pagerVars, concVars, loopVars>>

\* The variables each component leaves alone
exceptScript == <<fwdVars, matchVars, statsVars, basketVars, loopVars, pagerVars, concVars>>
exceptFwd == <<scriptVars, matchVars, statsVars, basketVars, loopVars, pagerVars, concVars>>
exceptMatch == <<scriptVars, statsVars, basketVars, loopVars, pagerVars, concVars>>
exceptStats == <<scriptVars, fwdVars, matchVars, basketVars, loopVars, pagerVars, concVars>>
exceptBasket == <<scriptVars, fwdVars, matchVars, statsVars, loopVars, pagerVars, concVars>>
exceptLoop == <<scriptVars, fwdVars, matchVars, statsVars, basketVars, pagerVars, concVars>>
exceptPager == <<scriptVars, fwdVars, matchVars, statsVars, basketVars, loopVars, concVars>>
exceptConc == <<scriptVars, fwdVars, matchVars, statsVars, pagerVars, loopVars>>

NoErr == "nil"

(***************************************************************************)
(* Strings                                                                 *)
(***************************************************************************)

\* strings.HasPrefix(s, p)
HasPrefix(s, p) == Len(s) >= Len(p) /\ SubSeq(s, 1, Len(p)) = p

\* strings.HasSuffix(s, p)
HasSuffix(s, p) == Len(s) >= Len(p) /\ SubSeq(s, Len(s) - Len(p) + 1, Len(s)) = p

\* strings.TrimPrefix(s, p)
TrimPrefix(s, p) == IF HasPrefix(s, p) THEN SubSeq(s, Len(p) + 1, Len(s)) ELSE s

\* strings.TrimSuffix(s, p)
TrimSuffix(s, p) == IF HasSuffix(s, p) THEN SubSeq(s, 1, Len(s) - Len(p)) ELSE s

\* strings.Contains(s, sub)
Contains(s, sub) ==
    \E i \in 1..(Len(s) - Len(sub) + 1) : SubSeq(s, i, i + Len(sub) - 1) = sub

\* strings.Index(s, c) for a one-character c: the first position, 0 when absent
\* (Go's -1, shifted by the 1-based indexing of sequences)
IndexOf(s, c) ==
    IF \E i \in 1..Len(s) : s[i] = c
    THEN CHOOSE i \in 1..Len(s) : s[i] = c /\ \A j \in 1..(i - 1) : s[j] # c
    ELSE 0

\* all sequences over S of length 0..n
SeqUpTo(S, n) == UNION { [1..k -> S] : k \in 0..n }

(***************************************************************************)
(* net/url as used by Forward: url.ParseRequestURI, url.Parse, URL.String  *)
(*                                                                         *)
(* The characters of the modelled URLs are letters, digits, and the        *)
(* delimiters ":", "/", "?", "&", "=": none of them is escaped in a path   *)
(* or a query, so EscapedPath() is the path itself; "#" occurs only after  *)
(* a "?" (url.Parse cuts the text at the first "#": the rest is the        *)
(* fragment, which String() writes back unescaped); userinfo and ports do  *)
(* not occur.                                                              *)
(***************************************************************************)

Letters == {"b", "c", "h", "k", "p", "q", "t", "u", "x", "y"}
Digits == {"1"}

EmptyURL ==
    [Scheme |-> <<>>, Opaque |-> <<>>, Host |-> <<>>, Path |-> <<>>,
     RawQuery |-> <<>>, ForceQuery |-> FALSE, OmitHost |-> FALSE,
     Fragment |-> <<>>]

\* strings.Count(s, c) for a one-character c
Count(s, c) == Cardinality({i \in 1..Len(s) : s[i] = c})

\* strings.Cut(s, c): the text before and after the first c
CutBefore(s, c) == IF IndexOf(s, c) = 0 THEN s ELSE SubSeq(s, 1, IndexOf(s, c) - 1)
CutAfter(s, c) == IF IndexOf(s, c) = 0 THEN <<>> ELSE SubSeq(s, IndexOf(s, c) + 1, Len(s))

\* url.getScheme: the scheme is the run of letters (digits after the first
\* character) before the first ":"; any other character first means there
\* is no scheme; a leading ":" is an error.
RECURSIVE getSchemeAt(_, _)
getSchemeAt(rawURL, i) ==
    IF i > Len(rawURL)
    THEN [scheme |-> <<>>, rest |-> rawURL, err |-> NoErr]
    ELSE IF rawURL[i] \in Letters THEN getSchemeAt(rawURL, i + 1)
    ELSE IF rawURL[i] \in Digits
         THEN IF i = 1
              THEN [scheme |-> <<>>, rest |-> rawURL, err |-> NoErr]
              ELSE getSchemeAt(rawURL, i + 1)
    ELSE IF rawURL[i] = ":"
         THEN IF i = 1
              THEN [scheme |-> <<>>, rest |-> <<>>, err |-> "missing protocol scheme"]
              ELSE [scheme |-> SubSeq(rawURL, 1, i - 1),
                    rest |-> SubSeq(rawURL, i + 1, Len(rawURL)), err |-> NoErr]
    ELSE [scheme |-> <<>>, rest |-> rawURL, err |-> NoErr]

getScheme(rawURL) == getSchemeAt(rawURL, 1)

\* url.parse(rawURL, viaRequest)
parse(rawURL, viaRequest) ==
    IF rawURL = <<>> /\ viaRequest THEN [err |-> "empty url", url |-> EmptyURL]
    ELSE
    LET gs == getScheme(rawURL)
        force == HasSuffix(gs.rest, <<"?">>) /\ Count(gs.rest, "?") = 1
        rest == IF force THEN SubSeq(gs.rest, 1, Len(gs.rest) - 1)
                ELSE CutBefore(gs.rest, "?")
        query == IF force THEN <<>> ELSE CutAfter(gs.rest, "?")
        u0 == [EmptyURL EXCEPT !.Scheme = gs.scheme, !.RawQuery = query,
                               !.ForceQuery = force]
    IN
    IF gs.err # NoErr THEN [err |-> gs.err, url |-> EmptyURL]
    ELSE IF ~HasPrefix(rest, <<"/">>) /\ gs.scheme # <<>>
         THEN [err |-> NoErr, url |-> [u0 EXCEPT !.Opaque = rest]]
    ELSE IF ~HasPrefix(rest, <<"/">>) /\ viaRequest
         THEN [err |-> "invalid URI for request", url |-> EmptyURL]
    ELSE IF ~HasPrefix(rest, <<"/">>) /\ Contains(CutBefore(rest, "/"), <<":">>)
         THEN [err |-> "first path segment in URL cannot contain colon", url |-> EmptyURL]
    ELSE IF /\ (gs.scheme # <<>> \/ (~viaRequest /\ ~HasPrefix(rest, <<"/", "/", "/">>)))
            /\ HasPrefix(rest, <<"/", "/">>)
         THEN LET authority == SubSeq(rest, 3, Len(rest))
                  i == IndexOf(authority, "/")
              IN [err |-> NoErr,
                  url |-> [u0 EXCEPT
                     !.Host = IF i = 0 THEN authority ELSE SubSeq(authority, 1, i - 1),
                     !.Path = IF i = 0 THEN <<>> ELSE SubSeq(authority, i, Len(authority))]]
    ELSE [err |-> NoErr,
          url |-> [u0 EXCEPT !.Path = rest,
                             !.OmitHost = (gs.scheme # <<>> /\ HasPrefix(rest, <<"/">>))]]

\* url.ParseRequestURI(rawURL)
ParseRequestURI(rawURL) == parse(rawURL, TRUE)

\* url.Parse(rawURL): the text before the first "#" is parsed, the text
\* after it is the fragment
setFragment(p, frag) ==
    IF p.err # NoErr THEN p
    ELSE [err |-> NoErr, url |-> [p.url EXCEPT !.Fragment = frag]]

Parse(rawURL) == setFragment(parse(CutBefore(rawURL, "#"), FALSE), CutAfter(rawURL, "#"))

\* (*URL).String()
URLString(u) ==
    LET scheme == IF u.Scheme # <<>> THEN u.Scheme \o <<":">> ELSE <<>>
        auth == IF u.Scheme # <<>> \/ u.Host # <<>>
                THEN IF u.OmitHost /\ u.Host = <<>> THEN <<>>
                     ELSE (IF u.Host # <<>> \/ u.Path # <<>> THEN <<"/", "/">> ELSE <<>>)
                          \o u.Host
                ELSE <<>>
        slash == IF u.Path # <<>> /\ u.Path[1] # "/" /\ u.Host # <<>>
                 THEN <<"/">> ELSE <<>>
        dot == IF scheme \o auth \o slash = <<>> /\ Contains(CutBefore(u.Path, "/"), <<":">>)
               THEN <<".", "/">> ELSE <<>>
        hier == IF u.Opaque # <<>> THEN u.Opaque ELSE auth \o slash \o dot \o u.Path
        query == IF u.ForceQuery \/ u.RawQuery # <<>> THEN <<"?">> \o u.RawQuery ELSE <<>>
        fragment == IF u.Fragment # <<>> THEN <<"#">> \o u.Fragment ELSE <<>>
    IN scheme \o hier \o query \o fragment

(***************************************************************************)
(* net/http headers as used by Forward                                     *)
(***************************************************************************)

\* DoNotForwardHeader
DoNotForwardHeader == "X-Do-Not-Forward"

\* textproto.CanonicalMIMEHeaderKey on the keys the code passes to Add, Del
\* and Set: "TE" becomes "Te"; the other keys ("Connection", "Upgrade",
\* "X-Do-Not-Forward", "Content-Type", and the keys of a captured request,
\* which the HTTP server has already canonicalized) are in canonical form.
CanonicalMIMEHeaderKey(k) == IF k = "TE" THEN "Te" ELSE k

\* http.Header{}
EmptyHeader == [k \in {} |-> <<>>]

\* Header.Add(key, value)
HeaderAdd(h, key, value) ==
    LET k == CanonicalMIMEHeaderKey(key) IN
    [n \in DOMAIN h \cup {k} |->
        IF n = k THEN (IF k \in DOMAIN h THEN h[k] ELSE <<>>) \o <<value>> ELSE h[n]]

\* Header.Set(key, value)
HeaderSet(h, key, value) ==
    LET k == CanonicalMIMEHeaderKey(key) IN
    [n \in DOMAIN h \cup {k} |-> IF n = k THEN <<value>> ELSE h[n]]

\* Header.Del(key)
HeaderDel(h, key) ==
    [n \in DOMAIN h \ {CanonicalMIMEHeaderKey(key)} |-> h[n]]

(***************************************************************************)
(* RequestData, ToRequestData                                              *)
(***************************************************************************)

\* ToRequestData(req): a copy of the inbound request's header map, method,
\* URL path, raw query and the whole body. (Date, the capture time, and
\* ContentLength are not read by Forward or Matches and are left out.)
ToRequestData(inbound) ==
    [Header |-> [k \in DOMAIN inbound.Header |-> inbound.Header[k]],
     Body |-> inbound.Body,
     Method |-> inbound.Method,
     Path |-> inbound.URL.Path,
     Query |-> inbound.URL.RawQuery]

(***************************************************************************)
(* RequestData.Forward                                                     *)
(***************************************************************************)

NilError == [isNil |-> TRUE, msg |-> <<>>, url |-> <<>>, cause |-> NoErr]
NilRequest == [isNil |-> TRUE, Method |-> "", URL |-> EmptyURL,
               Header |-> EmptyHeader, Body |-> <<>>]
NilResponse == [isNil |-> TRUE, StatusCode |-> 0, Header |-> EmptyHeader, Body |-> <<>>]

\* http.StatusBadGateway
StatusBadGateway == 502

\* expandURL(url, original, basket)
expandURL(url, original, basket) ==
    TrimSuffix(url, <<"/">>) \o TrimPrefix(original, <<"/">> \o basket)

\* A faulty variant of ExpandPath: the length test admits a path equal to "/" + basket
ExpandPath_NotStrict(forwardURL, req, config, basket) ==
    IF config.ExpandPath /\ Len(req.Path) >= Len(basket) + 1
    THEN [forwardURL EXCEPT !.Path = expandURL(forwardURL.Path, req.Path, basket)]
    ELSE forwardURL

\* "expand path": the forward URL with its path expanded when the basket
\* expands paths and the captured path is longer than "/" + basket
ExpandPath(forwardURL, req, config, basket) ==
    IF config.ExpandPath /\ Len(req.Path) > Len(basket) + 1
    THEN [forwardURL EXCEPT !.Path = expandURL(forwardURL.Path, req.Path, basket)]
    ELSE forwardURL

\* "append query": the captured raw query is appended to the forward URL's
AppendQuery(forwardURL, req) ==
    IF Len(req.Query) > 0
    THEN IF Len(forwardURL.RawQuery) > 0
         THEN [forwardURL EXCEPT !.RawQuery = forwardURL.RawQuery \o <<"&">> \o req.Query]
         ELSE [forwardURL EXCEPT !.RawQuery = req.Query]
    ELSE forwardURL

\* http.NewRequest(method, url, body): parses the URL text; the request
\* starts with an empty header. (The methods of captured requests are valid
\* method tokens.)
NewRequest(method, urlStr, body) ==
    LET p == Parse(urlStr) IN
    IF p.err # NoErr
    THEN [err |-> p.err, req |-> NilRequest]
    ELSE [err |-> NoErr,
          req |-> [isNil |-> FALSE, Method |-> method, URL |-> p.url,
                   Header |-> EmptyHeader, Body |-> body]]

\* "copy headers": every value of every captured header is added, in the
\* order of the captured value list (the map's keys, which are distinct
\* canonical names, are visited in no particular order)
RECURSIVE AddValues(_, _, _)
AddValues(h, key, vals) ==
    IF vals = <<>> THEN h
    ELSE AddValues(HeaderAdd(h, key, Head(vals)), key, Tail(vals))

RECURSIVE CopyHeaderKeys(_, _, _)
CopyHeaderKeys(h, src, keys) ==
    IF keys = {} THEN h
    ELSE LET k == CHOOSE k \in keys : TRUE
         IN CopyHeaderKeys(AddValues(h, k, src[k]), src, keys \ {k})

CopyHeaders(h, req) == CopyHeaderKeys(h, req.Header, DOMAIN req.Header)

\* A faulty variant of forwardHeadersCleanup: TE is not deleted
forwardHeadersCleanup_KeepsTE(h) ==
    HeaderDel(HeaderDel(h, "Connection"), "Upgrade")

\* forwardHeadersCleanup(req), on the request's header
forwardHeadersCleanup(h) ==
    HeaderDel(HeaderDel(HeaderDel(h, "Connection"), "Upgrade"), "TE")

\* A faulty variant of SetDoNotForward: the marker is not set
SetDoNotForward_Omitted(h) == h

\* "set do not forward header"
SetDoNotForward(h) == HeaderSet(h, DoNotForwardHeader, <<"1">>)

\* The header of the forwarded request: copy, cleanup, do-not-forward marker
ForwardHeader(forwardReq, req) ==
    [forwardReq EXCEPT
        !.Header = SetDoNotForward(forwardHeadersCleanup(CopyHeaders(forwardReq.Header, req)))]

\* The text of the *url.Error client.Do returns: Op "URL": cause, with Op the
\* method in title case
TitleMethod(method) == IF method = "GET" THEN <<"G", "e", "t">> ELSE <<"P", "o", "s", "t">>

URLErrorText(r, cause) ==
    TitleMethod(r.Method) \o <<" ", "\"">> \o URLString(r.URL) \o <<"\"", ":", " ">> \o cause

UnsupportedScheme == <<"u", "n", "s", "u", "p", "p", "o", "r", "t", "e", "d", " ", "p", "r", "o", "t", "o", "c", "o", "l", " ", "s", "c", "h", "e", "m", "e">>
NoHost == <<"h", "t", "t", "p", ":", " ", "n", "o", " ", "H", "o", "s", "t", " ", "i", "n", " ", "r", "e", "q", "u", "e", "s", "t", " ", "U", "R", "L">>
HTTP == <<"h", "t", "t", "p">>
HTTPS == <<"h", "t", "t", "p", "s">>

\* client.Do(forwardReq): the transport refuses a URL whose scheme is not
\* http or https, or that has no host, before anything is sent; otherwise
\* the outcome is the network's: an upstream response, or a transport
\* failure (net.fail is its cause).
ClientDo(r, net) ==
    IF r.URL.Scheme \notin {HTTP, HTTPS}
    THEN [err |-> URLErrorText(r, UnsupportedScheme), resp |-> NilResponse, onWire |-> FALSE]
    ELSE IF r.URL.Host = <<>>
    THEN [err |-> URLErrorText(r, NoHost), resp |-> NilResponse, onWire |-> FALSE]
    ELSE IF net.fail # <<>>
    THEN [err |-> URLErrorText(r, net.fail), resp |-> NilResponse, onWire |-> TRUE]
    ELSE [err |-> <<>>, resp |-> net.resp, onWire |-> TRUE]

FailedToForward == <<"F", "a", "i", "l", "e", "d", " ", "t", "o", " ", "f", "o", "r", "w", "a", "r", "d", " ", "r", "e", "q", "u", "e", "s", "t", ":", " ">>
TextPlain == <<"t", "e", "x", "t", "/", "p", "l", "a", "i", "n">>

\* badGatewayResp: status 502, Content-Type text/plain, and the body
\* fmt.Sprintf("Failed to forward request: %s", err)
badGatewayResp(err) ==
    [isNil |-> FALSE,
     StatusCode |-> StatusBadGateway,
     Header |-> HeaderSet(EmptyHeader, "Content-Type", TextPlain),
     Body |-> FailedToForward \o err]

\* A faulty variant of ForwardResponse: the 502 is returned with the error
ForwardResponse_WithError(d) ==
    IF d.err # <<>>
    THEN [resp |-> badGatewayResp(d.err),
          err |-> [isNil |-> FALSE, msg |-> d.err, url |-> <<>>, cause |-> NoErr]]
    ELSE [resp |-> d.resp, err |-> NilError]

\* A faulty variant of ForwardResponse: the error of client.Do is returned
ForwardResponse_Propagates(d) ==
    IF d.err # <<>>
    THEN [resp |-> NilResponse,
          err |-> [isNil |-> FALSE, msg |-> d.err, url |-> <<>>, cause |-> NoErr]]
    ELSE [resp |-> d.resp, err |-> NilError]

\* "forward request": the outcome of client.Do becomes Forward's result
ForwardResponse(d) ==
    IF d.err # <<>>
    THEN [resp |-> badGatewayResp(d.err), err |-> NilError]
    ELSE [resp |-> d.resp, err |-> NilError]

InvalidForwardURL == <<"i", "n", "v", "a", "l", "i", "d", " ", "f", "o", "r", "w", "a", "r", "d", " ", "U", "R", "L">>
FailedToCreate == <<"f", "a", "i", "l", "e", "d", " ", "t", "o", " ", "c", "r", "e", "a", "t", "e", " ", "f", "o", "r", "w", "a", "r", "d", " ", "r", "e", "q", "u", "e", "s", "t">>

\* (req *RequestData) Forward(client, config, basket): the result holds what
\* Forward returns (resp, err), the request it handed to client.Do (sent;
\* nil when client.Do was not called) and whether that request went out on
\* the network (onWire).
Forward(req, config, basket, net) ==
    LET p == ParseRequestURI(config.ForwardURL) IN
    IF p.err # NoErr
    THEN [resp |-> NilResponse,
          err |-> [isNil |-> FALSE, msg |-> InvalidForwardURL,
                   url |-> config.ForwardURL, cause |-> p.err],
          sent |-> NilRequest, onWire |-> FALSE]
    ELSE
    LET forwardURL == AppendQuery(ExpandPath(p.url, req, config, basket), req)
        nr == NewRequest(req.Method, URLString(forwardURL), req.Body)
    IN
    IF nr.err # NoErr
    THEN [resp |-> NilResponse,
          err |-> [isNil |-> FALSE, msg |-> FailedToCreate,
                   url |-> <<>>, cause |-> nr.err],
          sent |-> NilRequest, onWire |-> FALSE]
    ELSE
    LET forwardReq == ForwardHeader(nr.req, req)
        d == ClientDo(forwardReq, net)
        r == ForwardResponse(d)
    IN [resp |-> r.resp, err |-> r.err, sent |-> forwardReq, onWire |-> d.onWire]

\* A faulty variant of NewRequestHeader: the forwarded request is given the
\* captured record's header map
NewRequestHeader_Shared(req) == "captured"

\* The header map of the request http.NewRequest returns: a map of its own
\* ("fresh"), not the captured record's ("captured")
NewRequestHeader(req) == "fresh"

\* The captured record as a call of Forward leaves it. The path, the query,
\* the method and the body are strings, which Forward only reads; the
\* header is a map, and the copy loop, forwardHeadersCleanup and the Set of
\* X-Do-Not-Forward write to the map of the forwarded request. A call that
\* returns before http.NewRequest succeeded writes to neither.
RecordAfterForward(req, config, basket) ==
    LET p == ParseRequestURI(config.ForwardURL) IN
    IF p.err # NoErr THEN req
    ELSE
    LET forwardURL == AppendQuery(ExpandPath(p.url, req, config, basket), req)
        nr == NewRequest(req.Method, URLString(forwardURL), req.Body)
        target == NewRequestHeader(req)
        maps == [captured |-> req.Header, fresh |-> EmptyHeader]
        written == [maps EXCEPT ![target] =
                       SetDoNotForward(forwardHeadersCleanup(CopyHeaders(@, req)))]
    IN IF nr.err # NoErr THEN req
       ELSE [req EXCEPT !.Header = written.captured]

(***************************************************************************)
(* Capturing and forwarding one request                                    *)
(***************************************************************************)

\* Bound of the captured path: characters after "/" + basket + "/"
MaxRest == 1

BasketNames == {<<"b">>, <<"b", "c">>}

\* The path of a request a basket accepts: "/" + basket, alone or followed
\* by "/" and more
PathRests == {<<>>} \cup { <<"/">> \o w : w \in SeqUpTo({"y"}, MaxRest) }

VA == <<"x", "y">>
VB == <<"y", "1">>

\* The header names of inbound requests, in the canonical form the HTTP
\* server gives them ("Te" is the canonical form of TE), and the value lists
\* each may carry (<<>>: the header is absent)
InboundHeaderNames == {"Connection", "Upgrade", "Te", DoNotForwardHeader, "Accept"}

HeaderOptions(n) ==
    CASE n = "Connection" -> {<<>>, <<VA, VB>>}
      [] n = "Upgrade" -> {<<>>, <<VB>>}
      [] n = "Te" -> {<<>>, <<VA>>}
      [] n = DoNotForwardHeader -> {<<>>, << <<"1">> >>, << <<"0">>, <<"1">> >>}
      [] n = "Accept" -> {<<>>, <<VB, VA>>}

InboundHeaders ==
    { [k \in {n \in InboundHeaderNames : c[n] # <<>>} |-> c[k]] :
        c \in { c \in [InboundHeaderNames -> UNION {HeaderOptions(n) : n \in InboundHeaderNames}] :
                  \A n \in InboundHeaderNames : c[n] \in HeaderOptions(n) } }

InboundQueries == {<<>>, <<"k", "=", "1">>}

\* The requests a basket may receive
InboundRequests(basket) ==
    { [Method |-> mb[1], Body |-> mb[2], Header |-> h,
       URL |-> [Path |-> <<"/">> \o basket \o rest, RawQuery |-> q]] :
        mb \in {<<"GET", <<>>>>, <<"POST", <<"h", "i">>>>},
        h \in InboundHeaders, rest \in PathRests, q \in InboundQueries }

\* forward_url settings: absolute URLs without a path, with a path, with a
\* trailing slash, with a query and with a query and a fragment; the empty
\* string; a path only; a text with neither scheme nor leading slash; and a
\* scheme followed by a rootless text, which parses as an opaque URL
ForwardURLs ==
    { <<"h", "t", "t", "p", ":", "/", "/", "u", "p">>,
      <<"h", "t", "t", "p", ":", "/", "/", "u", "p", "/", "x">>,
      <<"h", "t", "t", "p", ":", "/", "/", "u", "p", "/", "x", "/">>,
      <<"h", "t", "t", "p", ":", "/", "/", "u", "p", "/", "x", "?", "q", "=", "1">>,
      <<"h", "t", "t", "p", ":", "/", "/", "u", "p", "/", "x", "?", "q", "=", "1", "#", "y">>,
      <<>>,
      <<"/", "x">>,
      <<"u", "p", "/", "x">>,
      <<"u", "p", ":", "x">> }

\* The BasketConfig fields Forward reads
ForwardConfigs == [ForwardURL : ForwardURLs, ExpandPath : BOOLEAN]

UpstreamOK ==
    [isNil |-> FALSE, StatusCode |-> 200,
     Header |-> HeaderSet(EmptyHeader, "Content-Type", <<"j", "s", "o", "n">>), Body |-> <<"o", "k">>]
UpstreamBadGateway ==
    [isNil |-> FALSE, StatusCode |-> 502,
     Header |-> HeaderSet(EmptyHeader, "Content-Type", <<"h", "t", "m", "l">>), Body |-> <<"b", "a", "d">>]

\* What the network does with a request that is sent: the upstream answers,
\* or the transport fails (connection refused, TLS error, timeout)
NetOutcomes ==
    { [fail |-> <<>>, resp |-> UpstreamOK],
      [fail |-> <<>>, resp |-> UpstreamBadGateway],
      [fail |-> <<"c", "o", "n", "n", "e", "c", "t", "i", "o", "n", " ", "r", "e", "f", "u", "s", "e", "d">>, resp |-> NilResponse],
      [fail |-> <<"t", "l", "s", ":", " ", "b", "a", "d", " ", "c", "e", "r", "t", "i", "f", "i", "c", "a", "t", "e">>, resp |-> NilResponse],
      [fail |-> <<"t", "i", "m", "e", "o", "u", "t">>, resp |-> NilResponse] }

NilRequestData ==
    [Header |-> EmptyHeader, Body |-> <<>>, Method |-> "", Path |-> <<>>, Query |-> <<>>]
NoForwardCall ==
    [config |-> [ForwardURL |-> <<>>, ExpandPath |-> FALSE],
     net |-> [fail |-> <<>>, resp |-> NilResponse]]
NoForwardResult ==
    [resp |-> NilResponse, err |-> NilError, sent |-> NilRequest, onWire |-> FALSE]

FwdIdle ==
    /\ fpc = "idle"
    /\ reqData = NilRequestData
    /\ reqBasket = <<>>
    /\ fwdCall = NoForwardCall
    /\ fwdRes = NoForwardResult

\* A basket accepts an inbound request: the handler captures it
Capture(basket, inbound) ==
    /\ fpc = "idle"
    /\ fpc' = "captured"
    /\ reqData' = ToRequestData(inbound)
    /\ reqBasket' = basket
    /\ UNCHANGED <<fwdCall, fwdRes, exceptFwd>>

\* The captured request is forwarded: req.Forward(client, config, basket)
ForwardCall(config, net) ==
    /\ fpc = "captured"
    /\ fpc' = "forwarded"
    /\ fwdCall' = [config |-> config, net |-> net]
    /\ fwdRes' = Forward(reqData, config, reqBasket, net)
    /\ reqData' = RecordAfterForward(reqData, config, reqBasket)
    /\ UNCHANGED <<reqBasket, exceptFwd>>

(***************************************************************************)
(* RequestData.Matches                                                     *)
(***************************************************************************)

\* A faulty variant of Matches: the default scope does not search the raw query
Matches_DefaultSkipsQuery(req, query, in) ==
    LET other == in \notin {"body", "query", "headers"}
        inBody == in = "body" \/ other
        inQuery == in = "query"
        inHeaders == in = "headers" \/ other
    IN \/ inBody /\ Contains(req.Body, query)
       \/ inQuery /\ Contains(req.Query, query)
       \/ inHeaders /\ \E k \in DOMAIN req.Header :
                          \E i \in 1..Len(req.Header[k]) : Contains(req.Header[k][i], query)

\* (req *RequestData) Matches(query, in): the switch sets the three flags
\* (the default case sets all of them), then the body, the raw query and
\* every header value are searched in turn
Matches(req, query, in) ==
    LET other == in \notin {"body", "query", "headers"}
        inBody == in = "body" \/ other
        inQuery == in = "query" \/ other
        inHeaders == in = "headers" \/ other
    IN IF inBody /\ Contains(req.Body, query) THEN TRUE
       ELSE IF inQuery /\ Contains(req.Query, query) THEN TRUE
       ELSE IF inHeaders
            THEN \E k \in DOMAIN req.Header :
                    \E i \in 1..Len(req.Header[k]) : Contains(req.Header[k][i], query)
            ELSE FALSE

\* The search texts and scopes tried
SearchQueries == {<<>>, <<"y">>, <<"1">>, <<"h", "i">>, <<"k", "=">>, <<"x", "y">>, <<"z">>}
SearchScopes == {"body", "query", "headers", "", "all", "Body"}

NoMatchCall == [called |-> FALSE, query |-> <<>>, in |-> ""]

MatchIdle ==
    /\ matchCall = NoMatchCall
    /\ matchRes = FALSE

\* The captured request is tested against a search: req.Matches(query, in)
MatchesCall(query, in) ==
    /\ fpc = "captured"
    /\ ~matchCall.called
    /\ matchCall' = [called |-> TRUE, query |-> query, in |-> in]
    /\ matchRes' = Matches(reqData, query, in)
    /\ UNCHANGED <<fwdVars, exceptMatch>>

(***************************************************************************)
(* DatabaseStats: Collect, collectConditionally, UpdateAvarage             *)
(***************************************************************************)

\* Bounds of the statistics inputs
MaxBaskets == 3
MaxCount == 2
MaxDate == 2
MaxTop == 2

\* The zero value of DatabaseStats. A nil slice is the empty sequence: the
\* code never builds a non-nil empty list.
ZeroStats ==
    [BasketsCount |-> 0, EmptyBasketsCount |-> 0, RequestsCount |-> 0,
     RequestsTotalCount |-> 0, MaxBasketSize |-> 0, AvgBasketSize |-> 0,
     TopBasketsBySize |-> <<>>, TopBasketsByDate |-> <<>>]

\* A faulty variant of Greater: an equal key also counts as greater
Greater_OrEqual(key, b1, b2) ==
    IF key = "size" THEN b1.RequestsTotalCount >= b2.RequestsTotalCount
    ELSE b1.LastRequestDate >= b2.LastRequestDate

\* The two comparators Collect passes to collectConditionally
Greater(key, b1, b2) ==
    IF key = "size" THEN b1.RequestsTotalCount > b2.RequestsTotalCount
    ELSE b1.LastRequestDate > b2.LastRequestDate

\* collectConditionally(col, basket, size, greater): a nil list becomes the
\* list of the one basket; otherwise the basket is inserted before the
\* first element it is greater than (the list grows by one when shorter
\* than size, else its last element falls off), or appended when it is
\* greater than none and the list is shorter than size.
collectConditionally(col, basket, size, key) ==
    IF col = <<>> THEN <<basket>>
    ELSE IF \E i \in 1..Len(col) : Greater(key, basket, col[i])
    THEN LET i == CHOOSE i \in 1..Len(col) :
                    /\ Greater(key, basket, col[i])
                    /\ \A j \in 1..(i - 1) : ~Greater(key, basket, col[j])
             shifted == SubSeq(col, 1, i - 1) \o <<basket>> \o SubSeq(col, i, Len(col))
         IN IF Len(col) < size THEN shifted ELSE SubSeq(shifted, 1, Len(col))
    ELSE IF Len(col) < size THEN Append(col, basket)
    ELSE col

\* (stats *DatabaseStats) Collect(basket, max)
Collect(st, basket, max) ==
    [st EXCEPT
        !.BasketsCount = @ + 1,
        !.EmptyBasketsCount = IF basket.RequestsTotalCount = 0 THEN @ + 1 ELSE @,
        !.RequestsCount = @ + basket.RequestsCount,
        !.RequestsTotalCount = @ + basket.RequestsTotalCount,
        !.MaxBasketSize = IF basket.RequestsTotalCount > @
                          THEN basket.RequestsTotalCount ELSE @,
        !.TopBasketsBySize = collectConditionally(@, basket, max, "size"),
        !.TopBasketsByDate = collectConditionally(@, basket, max, "date")]

\* A faulty variant of UpdateAvarage: the total is not divided
UpdateAvarage_Undivided(st) ==
    IF st.BasketsCount > st.EmptyBasketsCount
    THEN [st EXCEPT !.AvgBasketSize = st.RequestsTotalCount]
    ELSE [st EXCEPT !.AvgBasketSize = 0]

\* A faulty variant of UpdateAvarage: the average is taken over all baskets
UpdateAvarage_OverAll(st) ==
    IF st.BasketsCount > st.EmptyBasketsCount
    THEN [st EXCEPT !.AvgBasketSize = st.RequestsTotalCount \div st.BasketsCount]
    ELSE [st EXCEPT !.AvgBasketSize = 0]

\* (stats *DatabaseStats) UpdateAvarage(). The operands are not negative, so
\* Go's truncating division is \div.
UpdateAvarage(st) ==
    IF st.BasketsCount > st.EmptyBasketsCount
    THEN [st EXCEPT !.AvgBasketSize =
              st.RequestsTotalCount \div (st.BasketsCount - st.EmptyBasketsCount)]
    ELSE [st EXCEPT !.AvgBasketSize = 0]

\* The snapshot of a basket: it holds RequestsCount of the RequestsTotalCount
\* requests it ever accepted; a basket that never accepted one has no last
\* request date. The n-th snapshot collected is named n.
BasketInfos(name) ==
    { [Name |-> name, RequestsCount |-> c, RequestsTotalCount |-> t, LastRequestDate |-> d] :
        <<c, t, d>> \in { x \in (0..MaxCount) \X (0..MaxCount) \X (0..MaxDate) :
                            /\ x[1] \in {0, x[2]}
                            /\ (x[2] = 0) = (x[3] = 0) } }

StatsIdle ==
    /\ stats = ZeroStats
    /\ statsMax = 0
    /\ seen = <<>>
    /\ avgFresh = FALSE

StatsStart ==
    /\ stats = ZeroStats
    /\ statsMax \in 0..MaxTop
    /\ seen = <<>>
    /\ avgFresh = FALSE

\* stats.Collect(basket, max) for the next basket of the database
CollectCall(basket) ==
    /\ Len(seen) < MaxBaskets
    /\ stats' = Collect(stats, basket, statsMax)
    /\ seen' = Append(seen, basket)
    /\ avgFresh' = FALSE
    /\ UNCHANGED <<statsMax, exceptStats>>

\* stats.UpdateAvarage()
UpdateAvarageCall ==
    /\ stats' = UpdateAvarage(stats)
    /\ avgFresh' = TRUE
    /\ UNCHANGED <<statsMax, seen, exceptStats>>

(***************************************************************************)
(* Basket: the bounded ring of requests and total_count                    *)
(*                                                                         *)
(* src/ holds the Basket interface only; Add, Clear and Update follow the  *)
(* behaviour the specification gives for them (sections 3 and 4.D).        *)
(***************************************************************************)

\* Bounds of the basket inputs
MaxCapacity == 3
MaxAdds == 4

RecordBodies == {"a", "b"}

\* The ring after a record is prepended: the tail is dropped when the
\* length exceeds the capacity
Prepend(ring, record, cap) ==
    LET grown == <<record>> \o ring
    IN IF Len(grown) > cap THEN SubSeq(grown, 1, cap) ELSE grown

\* A faulty variant of Truncate: nothing is dropped
Truncate_KeepsAll(ring, cap) == ring

\* The ring cut to a capacity: the oldest records, at the tail, are dropped
Truncate(ring, cap) ==
    IF Len(ring) > cap THEN SubSeq(ring, 1, cap) ELSE ring

\* A faulty variant of NextTotal: the counter follows the ring's length
NextTotal_RingLength(total, ring) == Len(ring)

\* total_count after a record was accepted into the ring
NextTotal(total, ring) == total + 1

BasketIdle ==
    /\ capacity = 1
    /\ requests = <<>>
    /\ totalCount = 0
    /\ ringOp = "none"

\* A basket as BasketStore.Create leaves it: a valid capacity, no requests
BasketCreated ==
    /\ capacity \in 1..MaxCapacity
    /\ requests = <<>>
    /\ totalCount = 0
    /\ ringOp = "none"

\* Basket.Add: the record is prepended, the tail dropped when the ring is
\* over capacity, total_count incremented. seq is the record's arrival
\* number; it tells the records apart.
Add(body) ==
    /\ totalCount < MaxAdds
    /\ requests' = Prepend(requests, [seq |-> totalCount + 1, body |-> body], capacity)
    /\ totalCount' = NextTotal(totalCount, requests')
    /\ ringOp' = "Add"
    /\ UNCHANGED <<capacity, exceptBasket>>

\* Basket.Clear: empties the ring; total_count stays
Clear ==
    /\ requests' = <<>>
    /\ ringOp' = "Clear"
    /\ UNCHANGED <<capacity, totalCount, exceptBasket>>

\* Basket.Update(config): the new (valid) capacity is set and the ring is
\* truncated to it from the tail
Update(newCapacity) ==
    /\ capacity' = newCapacity
    /\ requests' = Truncate(requests, newCapacity)
    /\ ringOp' = "Update"
    /\ UNCHANGED <<totalCount, exceptBasket>>

(***************************************************************************)
(* Basket.GetRequests and a client that lists the basket page by page      *)
(*                                                                         *)
(* src/ holds the declaration of GetRequests and the RequestsPage type;    *)
(* the paging follows the specification (section 4.D).                     *)
(***************************************************************************)

\* Bounds of the paging inputs: the page size asked for, the service-wide
\* page limit, and the number of calls of one session
MaxPage == 4
MaxPageLimit == 3
MaxCalls == 5

\* A faulty variant of GetRequests: has_more is also set when the page ends
\* at the end of the ring
GetRequests_HasMoreAtEnd(ring, total, max, skip, limit) ==
    LET count == Len(ring)
        capped == IF max > limit THEN limit ELSE max
        last == IF skip + capped > count THEN count ELSE skip + capped
        page == SubSeq(ring, skip + 1, last)
    IN [Requests |-> page, Count |-> count, TotalCount |-> total,
        HasMore |-> skip + Len(page) <= count]

\* Basket.GetRequests(max, skip): up to max records (max is capped by the
\* service-wide page limit) from offset skip, newest first, with count (the
\* ring's size), total_count, and has_more iff skip + len(page) < count
GetRequests(ring, total, max, skip, limit) ==
    LET count == Len(ring)
        capped == IF max > limit THEN limit ELSE max
        last == IF skip + capped > count THEN count ELSE skip + capped
        page == SubSeq(ring, skip + 1, last)
    IN [Requests |-> page, Count |-> count, TotalCount |-> total,
        HasMore |-> skip + Len(page) < count]

NoPage == [Requests |-> <<>>, Count |-> 0, TotalCount |-> 0, HasMore |-> FALSE]

PagerIdle ==
    pager = [state |-> "idle", max |-> 0, limit |-> 1, skip |-> 0, calls |-> 0,
             acc |-> <<>>, page |-> NoPage]

\* A client starts listing the basket with page size max
StartPaging(max, limit) ==
    /\ pager.state = "idle"
    /\ pager' = [pager EXCEPT !.state = "paging", !.max = max, !.limit = limit]
    /\ UNCHANGED exceptPager

\* The client's next call, GetRequests(max, calls * max): the page is added
\* to what it has; it stops when has_more is false. skip is the offset of
\* the call just made.
NextPage ==
    LET skip == pager.calls * pager.max
        page == GetRequests(requests, totalCount, pager.max, skip, pager.limit)
    IN /\ pager.state = "paging"
       /\ pager.calls < MaxCalls
       /\ pager' = [pager EXCEPT !.state = IF page.HasMore THEN "paging" ELSE "done",
                                 !.skip = skip,
                                 !.calls = @ + 1,
                                 !.acc = @ \o page.Requests,
                                 !.page = page]
       /\ UNCHANGED exceptPager

(***************************************************************************)
(* Concurrent Add, Clear, Update and GetRequests on one basket             *)
(*                                                                         *)
(* src/ holds the Basket interface only; the per-basket lock (exclusive    *)
(* for writers, shared for listings) and the steps of each operation       *)
(* follow the specification (section 5). Inside the lock Add inserts into  *)
(* the ring and then increments total_count, a load and a store.           *)
(***************************************************************************)

\* Bound: the number of concurrent callers
MaxProcs == 3

ProcIds == 1..MaxProcs

\* The calls a caller may make; Update sets a capacity
ProcOps ==
    { [op |-> "Add", arg |-> 0], [op |-> "Clear", arg |-> 0],
      [op |-> "GetRequests", arg |-> 0] }
    \cup { [op |-> "Update", arg |-> c] : c \in 1..2 }

NoObservation == [made |-> FALSE, page |-> NoPage, inserts |-> 0]

FreeLock == [writer |-> 0, readers |-> {}]

ConcIdle ==
    /\ lock = FreeLock
    /\ procs = [p \in {} |-> 0]
    /\ lockOrder = <<>>

ConcStart ==
    /\ lock = FreeLock
    /\ procs \in [ProcIds -> { [op |-> o.op, arg |-> o.arg, pc |-> "start", tmp |-> 0,
                                 obs |-> NoObservation] : o \in ProcOps }]
    /\ lockOrder = <<>>

\* A faulty variant of CanLockShared: a listing does not wait for a writer
CanLockShared_NoWait(l) == TRUE

\* The lock can be taken shared when no writer holds it
CanLockShared(l) == l.writer = 0

\* The lock can be taken exclusively when nobody holds it
CanLockExclusive(l) == l.writer = 0 /\ l.readers = {}

\* The number of ring inserts made so far
InsertsDone ==
    Cardinality({ q \in DOMAIN procs :
                    procs[q].op = "Add" /\ procs[q].pc \in {"inserted", "loaded", "counted", "done"} })

\* A caller acquires the per-basket lock: shared for GetRequests, exclusive
\* for Add, Clear and Update
Acquire(p) ==
    /\ procs[p].pc = "start"
    /\ IF procs[p].op = "GetRequests"
       THEN /\ CanLockShared(lock)
            /\ lock' = [lock EXCEPT !.readers = @ \cup {p}]
       ELSE /\ CanLockExclusive(lock)
            /\ lock' = [lock EXCEPT !.writer = p]
    /\ lockOrder' = IF procs[p].op = "Add" THEN Append(lockOrder, p) ELSE lockOrder
    /\ procs' = [procs EXCEPT ![p].pc = "locked"]
    /\ UNCHANGED <<basketVars, exceptConc>>

\* Add, first step: the record is prepended and the ring cut to capacity.
\* seq names the Add call that brought the record.
AddInsert(p) ==
    /\ procs[p].op = "Add" /\ procs[p].pc = "locked"
    /\ requests' = Prepend(requests, [seq |-> p, body |-> "a"], capacity)
    /\ procs' = [procs EXCEPT ![p].pc = "inserted"]
    /\ UNCHANGED <<capacity, totalCount, ringOp, lock, lockOrder, exceptConc>>

\* Add, total_count++: the load
AddLoad(p) ==
    /\ procs[p].op = "Add" /\ procs[p].pc = "inserted"
    /\ procs' = [procs EXCEPT ![p].pc = "loaded", ![p].tmp = totalCount]
    /\ UNCHANGED <<basketVars, lock, lockOrder, exceptConc>>

\* Add, total_count++: the store
AddStore(p) ==
    /\ procs[p].op = "Add" /\ procs[p].pc = "loaded"
    /\ totalCount' = procs[p].tmp + 1
    /\ procs' = [procs EXCEPT ![p].pc = "counted"]
    /\ UNCHANGED <<capacity, requests, ringOp, lock, lockOrder, exceptConc>>

\* Clear, inside the lock
ClearLocked(p) ==
    /\ procs[p].op = "Clear" /\ procs[p].pc = "locked"
    /\ requests' = <<>>
    /\ procs' = [procs EXCEPT ![p].pc = "counted"]
    /\ UNCHANGED <<capacity, totalCount, ringOp, lock, lockOrder, exceptConc>>

\* Update, inside the lock
UpdateLocked(p) ==
    /\ procs[p].op = "Update" /\ procs[p].pc = "locked"
    /\ capacity' = procs[p].arg
    /\ requests' = Truncate(requests, procs[p].arg)
    /\ procs' = [procs EXCEPT ![p].pc = "counted"]
    /\ UNCHANGED <<totalCount, ringOp, lock, lockOrder, exceptConc>>

\* GetRequests, inside the lock: the whole ring is listed. The observation
\* also notes how many ring inserts had been made.
GetRequestsLocked(p) ==
    /\ procs[p].op = "GetRequests" /\ procs[p].pc = "locked"
    /\ procs' = [procs EXCEPT
          ![p].pc = "counted",
          ![p].obs = [made |-> TRUE,
                      page |-> GetRequests(requests, totalCount, MaxCapacity, 0, MaxCapacity),
                      inserts |-> InsertsDone]]
    /\ UNCHANGED <<basketVars, lock, lockOrder, exceptConc>>

\* The caller releases the lock and returns
Release(p) ==
    /\ procs[p].pc = "counted"
    /\ lock' = IF procs[p].op = "GetRequests"
               THEN [lock EXCEPT !.readers = @ \ {p}]
               ELSE [lock EXCEPT !.writer = 0]
    /\ procs' = [procs EXCEPT ![p].pc = "done"]
    /\ UNCHANGED <<basketVars, lockOrder, exceptConc>>

(***************************************************************************)
(* The ingest pipeline over baskets that forward to each other             *)
(*                                                                         *)
(* src/ holds no ingest handler: locating the basket, capturing, and the   *)
(* decision to forward follow the specification (sections 2 and 4.A, and   *)
(* the do-not-forward marker of section 6). Forward is the code's.         *)
(***************************************************************************)

\* Cap on the number of times one request is passed on
MaxHops == 3

\* The service's own address
ServiceHost == <<"u", "p">>
ServiceURL == <<"h", "t", "t", "p", ":", "/", "/", "u", "p", "/">>

\* forward_url settings of a basket: none, or a basket of this service
LoopForwardURLs == {<<>>} \cup { ServiceURL \o b : b \in BasketNames }

LoopConfigs == [ForwardURL : LoopForwardURLs, ExpandPath : BOOLEAN]

\* The external requests: a GET with or without X-Do-Not-Forward (any
\* value) and Connection
LoopInbound(basket) ==
    { r \in InboundRequests(basket) :
        /\ r.Method = "GET"
        /\ r.URL.RawQuery = <<>>
        /\ DOMAIN r.Header \subseteq {DoNotForwardHeader, "Connection"} }

\* The basket a request addresses: the first segment of its path
RouteBasket(path) == CutBefore(SubSeq(path, 2, Len(path)), "/")

\* The request the service receives when a forwarded request arrives
Received(sent) ==
    [Method |-> sent.Method, Body |-> sent.Body, Header |-> sent.Header,
     URL |-> [Path |-> sent.URL.Path, RawQuery |-> sent.URL.RawQuery]]

LoopIdle ==
    /\ loopCfg = [b \in BasketNames |-> [ForwardURL |-> <<>>, ExpandPath |-> FALSE]]
    /\ wire = {}
    /\ held = [b \in BasketNames |-> <<>>]
    /\ forwardCount = 0
    /\ extSent = FALSE

LoopStart ==
    /\ loopCfg \in [BasketNames -> LoopConfigs]
    /\ wire = {}
    /\ held = [b \in BasketNames |-> <<>>]
    /\ forwardCount = 0
    /\ extSent = FALSE

\* A client outside the service sends one request to a basket
External(basket, inbound) ==
    /\ ~extSent
    /\ extSent' = TRUE
    /\ wire' = wire \cup {[request |-> inbound, hops |-> 0]}
    /\ UNCHANGED <<loopCfg, held, forwardCount, exceptLoop>>

\* Ingest of a request on the wire: the addressed basket captures it; when
\* the basket has a forward_url and the request does not carry
\* X-Do-Not-Forward, the record is forwarded, and a request that goes out
\* to this service's address is on the wire again (the network delivers
\* it). MaxHops caps the number of times a request is passed on.
Ingest(m) ==
    LET basket == RouteBasket(m.request.URL.Path)
        data == ToRequestData(m.request)
        config == loopCfg[basket]
        forwards == /\ Len(config.ForwardURL) > 0
                    /\ DoNotForwardHeader \notin DOMAIN m.request.Header
                    /\ m.hops < MaxHops
        res == Forward(data, config, basket, [fail |-> <<>>, resp |-> UpstreamOK])
    IN /\ m \in wire
       /\ basket \in BasketNames
       /\ held' = [held EXCEPT ![basket] = <<[data |-> data, hops |-> m.hops]>> \o @]
       /\ IF forwards
          THEN /\ forwardCount' = forwardCount + 1
               /\ wire' = (wire \ {m}) \cup
                    (IF res.onWire /\ res.sent.URL.Host = ServiceHost
                     THEN {[request |-> Received(res.sent), hops |-> m.hops + 1]}
                     ELSE {})
          ELSE /\ forwardCount' = forwardCount
               /\ wire' = wire \ {m}
       /\ UNCHANGED <<loopCfg, extSent, exceptLoop>>

(***************************************************************************)
(* Script sandbox: scriptResponse                                          *)
(***************************************************************************)

\* Bounds of the script inputs
MaxScriptLen == 3
MaxEvals == 3

Buckets == {"b1", "b2"}

\* A script is a sequence of statements: print("a"), print("b"), a
\* statement whose evaluation fails (a syntax, name or runtime error), or a
\* loop that does not end within any evaluation budget (a for loop over a
\* huge range).
Statements == {"print_a", "print_b", "fail", "loop"}
Scripts == SeqUpTo(Statements, MaxScriptLen)

PrintArg(st) == IF st = "print_a" THEN "a" ELSE "b"

\* starlark.ExecFile with the thread's Print callback: statements run in
\* order, each print appends its message and a newline to the buffer
\* (fmt.Fprintln(out, msg)); the first failing statement stops the
\* evaluation with an error. The thread is given no step limit and is never
\* cancelled, so the evaluation stays in a loop statement: ends is FALSE and
\* ExecFile does not return. Otherwise the result is the buffer and the
\* error.
RECURSIVE ExecFile(_, _)
ExecFile(script, out) ==
    IF script = <<>> THEN [out |-> out, err |-> NoErr, ends |-> TRUE]
    ELSE IF Head(script) = "fail" THEN [out |-> out, err |-> "script-error", ends |-> TRUE]
    ELSE IF Head(script) = "loop" THEN [out |-> out, err |-> NoErr, ends |-> FALSE]
    ELSE ExecFile(Tail(script), out \o <<PrintArg(Head(script)), "\n">>)

NoCall == [called |-> FALSE, bucket |-> "", script |-> <<>>]
NoReturn == [returned |-> FALSE, out |-> <<>>, err |-> NoErr]

\* scriptResponse(bucket, script, req): evaluates the script; while the
\* evaluation does not end the call does not return. On an error it calls
\* log.Fatal(err), which prints and calls os.Exit(1): the process exits and
\* nothing is returned. Otherwise it returns (out.String(), err).
scriptResponse(bucket, script) ==
    LET r == ExecFile(script, <<>>) IN
    /\ hostAlive
    /\ evals < MaxEvals
    /\ evals' = evals + 1
    /\ scriptCall' = [called |-> TRUE, bucket |-> bucket, script |-> script]
    /\ IF ~r.ends
       THEN /\ hostAlive' = hostAlive
            /\ scriptRet' = NoReturn
       ELSE IF r.err # NoErr
       THEN /\ hostAlive' = FALSE
            /\ scriptRet' = NoReturn
       ELSE /\ hostAlive' = hostAlive
            /\ scriptRet' = [returned |-> TRUE, out |-> r.out, err |-> r.err]
    /\ UNCHANGED exceptScript

ScriptIdle ==
    /\ hostAlive = TRUE
    /\ scriptCall = NoCall
    /\ scriptRet = NoReturn
    /\ evals = 0

ScriptInit == ScriptIdle /\ FwdIdle /\ MatchIdle /\ StatsIdle /\ BasketIdle /\ PagerIdle /\ ConcIdle /\ LoopIdle

ScriptNext == \E b \in Buckets, s \in Scripts : scriptResponse(b, s)

SpecScript == ScriptInit /\ [][ScriptNext]_vars

\* C1: when a script's evaluation fails, scriptResponse reports the error to
\* its caller and the host keeps running: the host is never terminated, and
\* a call whose script fails has returned that error.
C1_HostSurvivesScriptError ==
    /\ hostAlive
    /\ (scriptCall.called /\ ExecFile(scriptCall.script, <<>>).err # NoErr)
         => (scriptRet.returned /\ scriptRet.err = ExecFile(scriptCall.script, <<>>).err)

\* C16: every script evaluation terminates: a call whose script exceeds the
\* evaluation budget (a loop that does not end) returns to its caller with
\* a script-timeout error.
C16_EvaluationTerminates ==
    (scriptCall.called /\ ~ExecFile(scriptCall.script, <<>>).ends)
    => /\ scriptRet.returned
       /\ scriptRet.err = "script-timeout"

(***************************************************************************)
(* Specification: one request captured and forwarded                       *)
(***************************************************************************)

ForwardInit == ScriptIdle /\ FwdIdle /\ MatchIdle /\ StatsIdle /\ BasketIdle /\ PagerIdle /\ ConcIdle /\ LoopIdle

ForwardNext ==
    \/ fpc = "idle" /\ \E b \in BasketNames : \E inbound \in InboundRequests(b) : Capture(b, inbound)
    \/ \E config \in ForwardConfigs, net \in NetOutcomes : ForwardCall(config, net)

SpecForward == ForwardInit /\ [][ForwardNext]_vars

\* C2: when the outbound call made by Forward fails (client.Do returns an
\* error: connection refused, TLS error, timeout), Forward returns a nil
\* error and a response with status 502 and Content-Type text/plain.
C2_TransportFailureBecomes502 ==
    (/\ fpc = "forwarded"
     /\ ~fwdRes.sent.isNil
     /\ ClientDo(fwdRes.sent, fwdCall.net).err # <<>>)
    => /\ fwdRes.err.isNil
       /\ ~fwdRes.resp.isNil
       /\ fwdRes.resp.StatusCode = 502
       /\ "Content-Type" \in DOMAIN fwdRes.resp.Header
       /\ fwdRes.resp.Header["Content-Type"] = << TextPlain >>

\* A request that went out on the network, was refused, and came back as 502
C2_Witness ==
    /\ fpc = "forwarded"
    /\ fwdRes.onWire
    /\ fwdCall.net.fail = <<"c", "o", "n", "n", "e", "c", "t", "i", "o", "n", " ", "r", "e", "f", "u", "s", "e", "d">>
    /\ fwdRes.err.isNil
    /\ fwdRes.resp.StatusCode = 502

\* C8: the header of the request Forward sends is the captured header (each
\* name with all its values in captured order) without Connection, Upgrade
\* and TE, and with X-Do-Not-Forward holding the single value "1".
HopByHop == {"Connection", "Upgrade", "Te"}

C8_ForwardedHeaders ==
    (fpc = "forwarded" /\ ~fwdRes.sent.isNil)
    => LET out == fwdRes.sent.Header
           kept == (DOMAIN reqData.Header \ HopByHop) \ {"X-Do-Not-Forward"}
       IN /\ DOMAIN out = kept \cup {"X-Do-Not-Forward"}
          /\ \A n \in kept : out[n] = reqData.Header[n]
          /\ out["X-Do-Not-Forward"] = << <<"1">> >>

\* A request captured with all four headers (X-Do-Not-Forward with two
\* values) and a multi-valued Accept has been sent out
C8_Witness ==
    /\ fpc = "forwarded"
    /\ ~fwdRes.sent.isNil
    /\ HopByHop \cup {"X-Do-Not-Forward", "Accept"} \subseteq DOMAIN reqData.Header
    /\ Len(reqData.Header["X-Do-Not-Forward"]) = 2
    /\ Len(fwdRes.sent.Header["Accept"]) = 2

\* C9: the path of the forwarded URL is forward_url's path with one trailing
\* slash trimmed followed by the captured path without its leading
\* "/" + basket, exactly when expand_path is set and the captured path is
\* longer than "/" + basket; otherwise it is forward_url's path. (The
\* forwarded URL is that of a request that went out on the network.)
TrimOneTrailingSlash(p) ==
    IF Len(p) > 0 /\ p[Len(p)] = "/" THEN SubSeq(p, 1, Len(p) - 1) ELSE p

C9_ForwardedPath ==
    (fpc = "forwarded" /\ fwdRes.onWire)
    => LET configured == ParseRequestURI(fwdCall.config.ForwardURL).url.Path
           prefix == <<"/">> \o reqBasket
       IN IF fwdCall.config.ExpandPath /\ Len(reqData.Path) > Len(prefix)
          THEN fwdRes.sent.URL.Path =
                 TrimOneTrailingSlash(configured)
                   \o SubSeq(reqData.Path, Len(prefix) + 1, Len(reqData.Path))
          ELSE fwdRes.sent.URL.Path = configured

\* GET /b/y?k=1 captured by basket b with forward_url http://up/x/ and
\* expand_path: the forwarded URL is http://up/x/y?k=1
C9_Witness ==
    /\ fpc = "forwarded"
    /\ reqBasket = <<"b">>
    /\ reqData.Path = <<"/", "b", "/", "y">>
    /\ fwdCall.config = [ForwardURL |-> <<"h", "t", "t", "p", ":", "/", "/", "u", "p", "/", "x", "/">>, ExpandPath |-> TRUE]
    /\ ~fwdRes.sent.isNil
    /\ URLString(fwdRes.sent.URL) = <<"h", "t", "t", "p", ":", "/", "/", "u", "p", "/", "x", "/", "y", "?", "k", "=", "1">>

\* A text is an absolute URI when it parses and has a scheme
IsAbsoluteURI(rawURL) ==
    /\ rawURL # <<>>
    /\ Parse(rawURL).err = NoErr
    /\ Parse(rawURL).url.Scheme # <<>>

\* C11: when forward_url is not a valid absolute URI (empty, path-only or
\* malformed), Forward returns an error and no response (so no 502), and
\* the HTTP client is not called: nothing goes out.
C11_InvalidForwardURLIsError ==
    (fpc = "forwarded" /\ ~IsAbsoluteURI(fwdCall.config.ForwardURL))
    => /\ ~fwdRes.err.isNil
       /\ fwdRes.resp.isNil
       /\ fwdRes.sent.isNil
       /\ ~fwdRes.onWire

\* C12: the raw query of the forwarded URL is forward_url's query, "&" and
\* the captured query when both are non-empty, the non-empty one when only
\* one is, and empty when both are empty.
C12_ForwardedQuery ==
    (fpc = "forwarded" /\ fwdRes.onWire)
    => LET configured == ParseRequestURI(fwdCall.config.ForwardURL).url.RawQuery
           captured == reqData.Query
       IN fwdRes.sent.URL.RawQuery =
            IF configured # <<>> /\ captured # <<>>
            THEN configured \o <<"&">> \o captured
            ELSE IF configured # <<>> THEN configured
            ELSE captured

\* C17: the body of the 502 that Forward synthesizes on a transport
\* failure names the basket and the underlying transport error.
C17_BadGatewayBodyNamesBasket ==
    (fpc = "forwarded" /\ fwdRes.onWire /\ fwdCall.net.fail # <<>>)
    => /\ Contains(fwdRes.resp.Body, reqBasket)
       /\ Contains(fwdRes.resp.Body, fwdCall.net.fail)

\* C18: every call of Forward ends with a response and no error, or with
\* an error and no response; the error is returned only when the HTTP
\* client was not called, and once it was called the result is a response.
C18_ResponseOrError ==
    fpc = "forwarded"
    => /\ fwdRes.resp.isNil # fwdRes.err.isNil
       /\ ~fwdRes.err.isNil => (fwdRes.sent.isNil /\ ~fwdRes.onWire)
       /\ ~fwdRes.sent.isNil => (~fwdRes.resp.isNil /\ fwdRes.err.isNil)

\* A forward_url without scheme or leading slash: Forward returned the
\* error, no response, and the client was not called
C18_Witness ==
    /\ fpc = "forwarded"
    /\ fwdCall.config.ForwardURL = <<"u", "p", "/", "x">>
    /\ ~fwdRes.err.isNil
    /\ fwdRes.err.msg = InvalidForwardURL
    /\ fwdRes.resp.isNil
    /\ fwdRes.sent.isNil

\* C19: a call of Forward leaves the captured record as it was, in every
\* outcome: its header, path and query are those captured.
C19_RecordUnchangedByForward ==
    [][fpc' = "forwarded" => reqData' = reqData]_vars

\* A record captured with Connection, Upgrade and TE and a query was
\* forwarded with an expanded path: the request sent has none of the three
\* headers, the record has them all, its path and its query
C19_Witness ==
    /\ fpc = "forwarded"
    /\ fwdRes.onWire
    /\ fwdCall.config.ExpandPath
    /\ HopByHop \subseteq DOMAIN reqData.Header
    /\ HopByHop \cap DOMAIN fwdRes.sent.Header = {}
    /\ DoNotForwardHeader \notin DOMAIN reqData.Header
    /\ reqData.Path = <<"/", "b", "/", "y">>
    /\ reqData.Query = <<"k", "=", "1">>
    /\ fwdRes.sent.URL.Path # reqData.Path

(***************************************************************************)
(* Specification: one request captured and searched                        *)
(***************************************************************************)

MatchInit == ScriptIdle /\ FwdIdle /\ MatchIdle /\ StatsIdle /\ BasketIdle /\ PagerIdle /\ ConcIdle /\ LoopIdle

MatchNext ==
    \/ fpc = "idle" /\ \E b \in BasketNames : \E inbound \in InboundRequests(b) : Capture(b, inbound)
    \/ \E query \in SearchQueries, in \in SearchScopes : MatchesCall(query, in)

SpecMatch == MatchInit /\ [][MatchNext]_vars

\* The fields a scope selects: the body, the raw query, the header values
HeaderValues(r) ==
    UNION { { r.Header[k][i] : i \in 1..Len(r.Header[k]) } : k \in DOMAIN r.Header }

SelectedFields(r, scope) ==
    CASE scope = "body" -> {r.Body}
      [] scope = "query" -> {r.Query}
      [] scope = "headers" -> HeaderValues(r)
      [] OTHER -> {r.Body, r.Query} \cup HeaderValues(r)

IsSubstring(q, text) ==
    \E a, b \in 0..Len(text) : a + Len(q) = b /\ SubSeq(text, a + 1, b) = q

\* C10: Matches(query, scope) is true iff query is a substring of at least
\* one selected field (body; raw query; header values; all three for any
\* other scope), so a search in the default scope is the disjunction of the
\* searches in the three named scopes.
C10_MatchesSelectedFields ==
    matchCall.called
    => /\ matchRes = (\E f \in SelectedFields(reqData, matchCall.in) :
                         IsSubstring(matchCall.query, f))
       /\ matchCall.in \notin {"body", "query", "headers"}
            => matchRes = (\E scope \in {"body", "query", "headers"} :
                              \E f \in SelectedFields(reqData, scope) :
                                 IsSubstring(matchCall.query, f))

\* A default-scope search that matches only through the raw query
C10_Witness ==
    /\ matchCall.called
    /\ matchCall.in = ""
    /\ matchCall.query = <<"k", "=">>
    /\ reqData.Query = <<"k", "=", "1">>
    /\ matchRes

(***************************************************************************)
(* Specification: one statistics roll-up                                   *)
(***************************************************************************)

StatsInit == ScriptIdle /\ FwdIdle /\ MatchIdle /\ StatsStart /\ BasketIdle /\ PagerIdle /\ ConcIdle /\ LoopIdle

StatsNext ==
    \/ \E basket \in BasketInfos(Len(seen) + 1) : CollectCall(basket)
    \/ UpdateAvarageCall

SpecStats == StatsInit /\ [][StatsNext]_vars

Min(a, b) == IF a < b THEN a ELSE b

\* C4: after Collect on n snapshots with bound K, top_baskets_size holds
\* exactly min(K, n) distinct snapshots of the input, non-increasing in
\* requests_total_count, equal counts in order of first appearance.
C4_TopBySizeShape ==
    LET top == stats.TopBasketsBySize IN
    /\ Len(top) = Min(statsMax, Len(seen))
    /\ \A i \in 1..Len(top) : \E k \in 1..Len(seen) : top[i] = seen[k]
    /\ \A i, j \in 1..Len(top) : i < j =>
          /\ top[i].Name # top[j].Name
          /\ top[i].RequestsTotalCount >= top[j].RequestsTotalCount
          /\ top[i].RequestsTotalCount = top[j].RequestsTotalCount
               => top[i].Name < top[j].Name

RECURSIVE SumOf(_, _)
SumOf(infos, field) ==
    IF infos = <<>> THEN 0 ELSE Head(infos)[field] + SumOf(Tail(infos), field)

\* C5: the counters equal their definitions over the collected snapshots,
\* and after UpdateAvarage avg_basket_size is requests_total_count divided
\* by the number of non-empty baskets, or 0 when there is none.
C5_StatsMatchDefinitions ==
    LET n == Len(seen)
        empty == Cardinality({i \in 1..n : seen[i].RequestsTotalCount = 0})
        total == SumOf(seen, "RequestsTotalCount")
    IN /\ stats.BasketsCount = n
       /\ stats.EmptyBasketsCount = empty
       /\ stats.RequestsCount = SumOf(seen, "RequestsCount")
       /\ stats.RequestsTotalCount = total
       /\ \A i \in 1..n : seen[i].RequestsTotalCount <= stats.MaxBasketSize
       /\ \/ n = 0 /\ stats.MaxBasketSize = 0
          \/ \E i \in 1..n : seen[i].RequestsTotalCount = stats.MaxBasketSize
       /\ avgFresh => stats.AvgBasketSize =
                         IF n - empty > 0 THEN total \div (n - empty) ELSE 0

\* Three baskets with total counts of which one is 0, averaged over the two
\* others
C5_Witness ==
    /\ avgFresh
    /\ Len(seen) = 3
    /\ stats.EmptyBasketsCount = 1
    /\ stats.RequestsTotalCount = 3
    /\ stats.MaxBasketSize = 2
    /\ stats.AvgBasketSize = 1

\* The snapshots collected so far that a list does not hold
LeftOut(top) ==
    { seen[k] : k \in { k \in 1..Len(seen) : \A i \in 1..Len(top) : top[i].Name # seen[k].Name } }

\* A list holds the greatest snapshots by a key: no snapshot left out has a
\* greater key than one kept, and one left out with the key of one kept was
\* collected after it
HoldsGreatest(top, field) ==
    \A s \in LeftOut(top) : \A i \in 1..Len(top) :
        /\ s[field] <= top[i][field]
        /\ s[field] = top[i][field] => top[i].Name < s.Name

\* C15: after any sequence of Collect calls with bound K, top_baskets_size
\* holds the greatest snapshots by requests_total_count and
\* top_baskets_recent the greatest by last_request_date, ties going to the
\* snapshot collected earlier.
C15_TopListsHoldGreatest ==
    /\ HoldsGreatest(stats.TopBasketsBySize, "RequestsTotalCount")
    /\ HoldsGreatest(stats.TopBasketsByDate, "LastRequestDate")

\* Three snapshots collected with K = 2: the first was pushed out of the
\* list by size, the third, with the date of the second, is left out of
\* the list by date
C15_Witness ==
    /\ statsMax = 2
    /\ Len(seen) = 3
    /\ seen[1].RequestsTotalCount = 1 /\ seen[2].RequestsTotalCount = 2
    /\ seen[3].RequestsTotalCount = 2
    /\ seen[1].LastRequestDate = 2 /\ seen[2].LastRequestDate = 1
    /\ seen[3].LastRequestDate = 1
    /\ stats.TopBasketsBySize = <<seen[2], seen[3]>>
    /\ stats.TopBasketsByDate = <<seen[1], seen[2]>>

\* C20: after any sequence of Collect calls empty_baskets_count <=
\* baskets_count and max_basket_size <= requests_total_count; after a
\* following UpdateAvarage avg_basket_size <= max_basket_size; and a Collect
\* call leaves avg_basket_size as it was.
C20_StatsInequalities ==
    /\ [](/\ stats.EmptyBasketsCount <= stats.BasketsCount
          /\ stats.MaxBasketSize <= stats.RequestsTotalCount
          /\ avgFresh => stats.AvgBasketSize <= stats.MaxBasketSize)
    /\ [][Len(seen') > Len(seen) => stats'.AvgBasketSize = stats.AvgBasketSize]_vars

\* A basket of size 2 was collected and averaged, then Collect added one
\* of size 1: avg_basket_size is still 2, the average of the first alone
C20_Witness ==
    /\ Len(seen) = 2
    /\ ~avgFresh
    /\ seen[1].RequestsTotalCount = 2
    /\ seen[2].RequestsTotalCount = 1
    /\ stats.AvgBasketSize = 2
    /\ stats.MaxBasketSize = 2
    /\ stats.RequestsTotalCount = 3

(***************************************************************************)
(* Specification: one basket under Add, Clear and Update                   *)
(***************************************************************************)

BasketInit == ScriptIdle /\ FwdIdle /\ MatchIdle /\ StatsIdle /\ BasketCreated /\ PagerIdle /\ ConcIdle /\ LoopIdle

BasketNext ==
    \/ \E body \in RecordBodies : Add(body)
    \/ Clear
    \/ \E c \in 1..MaxCapacity : Update(c)

SpecBasket == BasketInit /\ [][BasketNext]_vars

\* C6: the ring never holds more than config.capacity records and is in
\* newest-first insertion order; Add on a full ring drops exactly the oldest
\* record; Update to a smaller capacity drops exactly the oldest
\* len - newCapacity records and keeps the order of the rest.
C6_RingBoundedNewestFirst ==
    /\ [](/\ Len(requests) <= capacity
          /\ \A i, j \in 1..Len(requests) : i < j => requests[i].seq > requests[j].seq)
    /\ [][/\ ringOp' = "Add" =>
               /\ Len(requests') >= 1
               /\ requests'[1].seq = totalCount + 1
               /\ Tail(requests') = IF Len(requests) = capacity
                                    THEN SubSeq(requests, 1, Len(requests) - 1)
                                    ELSE requests
          /\ ringOp' = "Update" =>
               /\ Len(requests') = Min(Len(requests), capacity')
               /\ requests' = SubSeq(requests, 1, Len(requests'))]_vars

\* A full ring of three records was cut to capacity 1 by Update, or a full
\* ring has just evicted its oldest record on Add
C6_Witness ==
    \/ ringOp = "Update" /\ capacity = 1 /\ Len(requests) = 1 /\ totalCount >= 3
         /\ requests[1].seq = totalCount
    \/ ringOp = "Add" /\ Len(requests) = capacity /\ totalCount > capacity

\* C7: total_count never decreases; each Add increases it by exactly 1;
\* eviction, Clear and Update leave it unchanged; it is never less than the
\* ring's length; Clear leaves the ring empty.
C7_TotalCountMonotonic ==
    /\ [](totalCount >= Len(requests))
    /\ [][/\ totalCount' >= totalCount
          /\ ringOp' = "Add" => totalCount' = totalCount + 1
          /\ ringOp' \in {"Clear", "Update"} => totalCount' = totalCount
          /\ ringOp' = "Clear" => requests' = <<>>]_vars

\* The ring was cleared after more requests were accepted than it can hold
C7_Witness ==
    /\ ringOp = "Clear"
    /\ requests = <<>>
    /\ totalCount > capacity

(***************************************************************************)
(* Specification: a basket is filled, then listed page by page with no     *)
(* mutation in between                                                     *)
(***************************************************************************)

PagingInit == ScriptIdle /\ FwdIdle /\ MatchIdle /\ StatsIdle /\ BasketCreated /\ PagerIdle /\ ConcIdle /\ LoopIdle

PagingNext ==
    \/ pager.state = "idle" /\ \E body \in RecordBodies : Add(body)
    \/ pager.state = "idle" /\ Clear
    \/ pager.state = "idle" /\ \E c \in 1..MaxCapacity : Update(c)
    \/ \E max \in 0..MaxPage, limit \in 1..MaxPageLimit : StartPaging(max, limit)
    \/ NextPage

SpecPaging == PagingInit /\ [][PagingNext]_vars

\* What the claim says of a paging session: every page reports has_more =
\* (skip + len(page) < count); the session ends within count + 1 calls
\* (each call but the last brings at least one record); and when it has
\* ended the pages concatenate to the ring, newest first, each record once.
PagesCoverRing ==
    /\ pager.calls >= 1 =>
          pager.page.HasMore = (pager.skip + Len(pager.page.Requests) < pager.page.Count)
    /\ pager.calls <= Len(requests) + 1
    /\ pager.state = "done" => pager.acc = requests

\* C13 as stated: for every page size max >= 0, the pages GetRequests(max, 0),
\* GetRequests(max, max), ... taken until has_more is false concatenate to
\* the full ring, newest first, each record once, and the paging stops
\* after finitely many calls.
C13_PagesCoverRing_AnyMax == PagesCoverRing

\* C13 as amended: the same for a page size of at least 1 and at most the
\* service-wide page limit.
C13_PagesCoverRing ==
    (pager.max >= 1 /\ pager.max <= pager.limit) => PagesCoverRing

\* A ring of three records listed in two pages of two and one
C13_Witness ==
    /\ pager.state = "done"
    /\ pager.max = 2
    /\ pager.limit >= 2
    /\ pager.calls = 2
    /\ Len(requests) = 3
    /\ pager.acc = requests
    /\ Len(pager.page.Requests) = 1

(***************************************************************************)
(* Specification: concurrent callers on one basket                         *)
(***************************************************************************)

ConcInit == ScriptIdle /\ FwdIdle /\ MatchIdle /\ StatsIdle /\ BasketCreated /\ PagerIdle /\ ConcStart /\ LoopIdle

ConcNext ==
    \E p \in ProcIds :
        \/ Acquire(p)
        \/ AddInsert(p)
        \/ AddLoad(p)
        \/ AddStore(p)
        \/ ClearLocked(p)
        \/ UpdateLocked(p)
        \/ GetRequestsLocked(p)
        \/ Release(p)

SpecConc == ConcInit /\ [][ConcNext]_vars

\* The place of an Add call in the order of lock acquisition
LockPosition(p) == CHOOSE i \in 1..Len(lockOrder) : lockOrder[i] = p

AddCalls == { p \in ProcIds : procs[p].op = "Add" }

\* C14: under every interleaving each Add takes effect atomically: a
\* listing observes as many ring inserts as total_count increments; no
\* increment is lost (when k Adds have returned and no other is under way,
\* total_count is k); and the ring is ordered newest first by the order in
\* which the Adds acquired the lock.
C14_AddIsAtomic ==
    /\ \A p \in ProcIds :
          procs[p].obs.made => procs[p].obs.inserts = procs[p].obs.page.TotalCount
    /\ (\A p \in AddCalls : procs[p].pc \in {"start", "done"})
          => totalCount = Cardinality({ p \in AddCalls : procs[p].pc = "done" })
    /\ \A i, j \in 1..Len(requests) :
          i < j => LockPosition(requests[i].seq) > LockPosition(requests[j].seq)

\* Three Adds have returned: total_count is 3 and the ring holds the last
\* ones in the order of lock acquisition, which is not the order of the
\* callers' numbers
C14_Witness ==
    /\ \A p \in ProcIds : procs[p].op = "Add" /\ procs[p].pc = "done"
    /\ totalCount = 3
    /\ lockOrder = <<2, 3, 1>>
    /\ capacity = 2
    /\ requests = <<[seq |-> 1, body |-> "a"], [seq |-> 3, body |-> "a"]>>

(***************************************************************************)
(* Specification: one external request among baskets that forward to each  *)
(* other                                                                   *)
(***************************************************************************)

LoopInit == ScriptIdle /\ FwdIdle /\ MatchIdle /\ StatsIdle /\ BasketIdle /\ PagerIdle /\ ConcIdle /\ LoopStart

LoopNext ==
    \/ ~extSent /\ \E b \in BasketNames : \E inbound \in LoopInbound(b) : External(b, inbound)
    \/ \E m \in wire : Ingest(m)

SpecLoop == LoopInit /\ [][LoopNext]_vars

HeldRecords == UNION { { held[b][i] : i \in 1..Len(held[b]) } : b \in BasketNames }

====
